---- MODULE Spec2Model ----
(***************************************************************************)
(* VocalLabs speech analysis API (backend/app/main.py): the /analyze       *)
(* handler as a state machine, run by one asyncio event loop for several   *)
(* concurrent requests.                                                    *)
(*                                                                         *)
(* Numbers: Python floats are modelled in decimal fixed point.  Scores are *)
(* in thousandths of a point (18.0 points = 18000), durations in           *)
(* hundredths of a second (125.4 s = 12540).  File names and formatted     *)
(* strings are sequences of one-character strings.                         *)
(***************************************************************************)
EXTENDS Integers, Sequences, FiniteSets, TLC

\* Number of request slots (concurrent /analyze invocations in one process).
MaxInv == 2

Inv == 1..MaxInv

----------------------------------------------------------------------------
(* Strings *)

LowerOf(c) ==
    CASE c = "A" -> "a" [] c = "V" -> "v" [] c = "W" -> "w" [] c = "M" -> "m"
      [] c = "P" -> "p" [] c = "T" -> "t" [] c = "X" -> "x" [] c = "O" -> "o"
      [] c = "G" -> "g" [] c = "F" -> "f" [] c = "L" -> "l" [] c = "C" -> "c"
      [] OTHER -> c

\* str.lower()
Lower(s) == [k \in 1..Len(s) |-> LowerOf(s[k])]

\* str.rfind(c), 1-based; 0 when c does not occur (Python's -1).
RFind(s, c) ==
    LET hits == {k \in 1..Len(s) : s[k] = c}
    IN  IF hits = {} THEN 0 ELSE CHOOSE k \in hits : \A j \in hits : j <= k

\* os.path.splitext(p)[1]: the text from the last dot of the last path
\* component, unless that component has only leading dots before it.
SplitExt(p) ==
    LET sepIndex == RFind(p, "/")
        dotIndex == RFind(p, ".")
    IN  IF dotIndex > sepIndex
             /\ \E k \in (sepIndex + 1)..(dotIndex - 1) : p[k] # "."
        THEN SubSeq(p, dotIndex, Len(p))
        ELSE <<>>

allowed_extensions ==
    { <<".", "w", "a", "v">>, <<".", "m", "p", "3">>, <<".", "m", "4", "a">>,
      <<".", "f", "l", "a", "c">>, <<".", "o", "g", "g">> }

\* file_ext of line 109.
FileExt(filename) == Lower(SplitExt(filename))

\* The validation with the extension check left out.
ValidUploadNameOnly(filename) == filename # <<>>

\* The request passes the validation of lines 104-114.
ValidUpload(filename) ==
    /\ filename # <<>>
    /\ FileExt(filename) \in allowed_extensions

DigitChar(d) ==
    CASE d = 0 -> "0" [] d = 1 -> "1" [] d = 2 -> "2" [] d = 3 -> "3"
      [] d = 4 -> "4" [] d = 5 -> "5" [] d = 6 -> "6" [] d = 7 -> "7"
      [] d = 8 -> "8" [] d = 9 -> "9"

RECURSIVE Digits(_)
\* format(n, "d") for n >= 0.
Digits(n) == IF n < 10 THEN <<DigitChar(n)>>
             ELSE Append(Digits(n \div 10), DigitChar(n % 10))

\* format(n, "02d")
Pad2(n) == IF n < 10 THEN <<"0">> \o Digits(n) ELSE Digits(n)

\* The duration formatted with the seconds rounded instead of truncated.
FormatDurationRounded(d) ==
    Digits(d \div 6000) \o <<":">> \o Pad2(((d % 6000) + 50) \div 100)

\* Line 140: f"{int(d // 60)}:{int(d % 60):02d}", d in hundredths of a second.
FormatDuration(d) ==
    Digits(d \div 6000) \o <<":">> \o Pad2((d % 6000) \div 100)

\* round(x, 1): to the nearest multiple of `unit`, ties to the even multiple.
RoundTo(x, unit) ==
    LET q == x \div unit
        r == x % unit
    IN  IF 2 * r < unit THEN q * unit
        ELSE IF 2 * r > unit THEN (q + 1) * unit
        ELSE IF q % 2 = 0 THEN q * unit ELSE (q + 1) * unit

\* One decimal place of a score in thousandths.
Round1(x) == RoundTo(x, 100)

\* One decimal place of a duration in hundredths of a second.
RoundSeconds(d) == RoundTo(d, 10)

----------------------------------------------------------------------------
(* What the collaborators can hand back.  The scorers, the speech-to-text   *)
(* engine and the waveform decoder are external: every call either raises   *)
(* or returns one of these values.                                          *)

\* audio.filename of the upload: valid, upper case, unsupported, no
\* extension, a dot file (splitext gives no extension) and a missing name.
Filenames ==
    { <<"a", ".", "w", "a", "v">>, <<"A", ".", "M", "P", "3">>,
      <<"a", ".", "f", "l", "a", "c">>, <<"a", ".", "t", "x", "t">>,
      <<"a", "w", "a", "v">>, <<".", "o", "g", "g">>, <<>> }

\* expected_duration form field (free text).
ExpectedDurations == {"5-7 minutes"}

\* transcript.transcribe_audio / process_transcription: the end of the last
\* segment (hundredths of a second) and the number of pauses.
Transcripts == { [speech_end |-> 5800, number_of_pauses |-> 2] }

\* librosa.get_duration of the decoded waveform, hundredths of a second:
\* 0 s, 59.9 s, 125.4 s, 600 s.
WaveDurations == {0, 5990, 12540, 60000}

\* proficiency_result['final_score'], thousandths of a point.
ProficiencyScores == {0, 17260, 20000}

\* voice_modulation.analyze_voice_modulation: a dict with an 'error' key, or
\* one with scores.total_score.
ModulationResults ==
    { [error |-> TRUE, total_score |-> 0] }
      \cup { [error |-> FALSE, total_score |-> s] : s \in {0, 20000} }

\* development_result['structure']['score'], ['time_utilization']['score'].
StructureScores == {0, 12000}
TimeUtilizationScores == {0, 8000, 13000}

\* effectiveness_result['total_score'].
EffectivenessScores == {0, 20000}

\* vocabulary_result['vocabulary_score'], on the scorer's 0-100 scale
\* (thousandths): 0, 43.21, 100 and an out-of-range 150.
VocabularyNative == {0, 43210, 100000, 150000}

Stages ==
    { "transcription", "duration", "filler", "pause", "proficiency",
      "modulation", "development", "effectiveness", "vocabulary", "compile" }

----------------------------------------------------------------------------
VARIABLES
    server,           \* "starting" | "serving" | "failed"
    whisper_model,    \* the global of line 45: "None" | "base"
    running,          \* the invocation the event loop thread is executing:
                      \* {} while the loop is free, else {i}
    in_model,         \* invocations inside transcribe_audio(whisper_model, ..)
    files,            \* temporary files that exist on disk
    pc,               \* each invocation's position in analyze_speech
    request,          \* audio.filename and expected_duration
    temp_audio_path,  \* <<>> for None, else <<path>>
    loc,              \* the handler's local variables
    exc,              \* the exception in flight
    response,         \* the response the handler ends with
    started,          \* history: the stages this invocation has started
    failed,           \* history: the stage that raised
    hist,             \* history: staging, upload read, unlink attempts
    save,             \* the /save-speech handler: position, inputs, locals
    firestore_docs,   \* the documents of the 'speeches' collection
    v2                \* locals of the /api/v2/analyze handler (app/main.py)

\* The state of the /analyze handler and of the process it runs in.
analyzeVars == << whisper_model, in_model, files, pc, request,
                  temp_audio_path, loc, exc, response, started, failed, hist >>

vars == << server, whisper_model, running, in_model, files, pc, request,
           temp_audio_path, loc, exc, response, started, failed, hist,
           save, firestore_docs, v2 >>

NoRequest == [filename |-> <<>>, expected_duration |-> ""]

NoLocals ==
    [ transcription_result |-> [speech_end |-> 0, number_of_pauses |-> 0],
      actual_duration |-> 0,
      actual_duration_str |-> <<>>,
      final_score |-> 0,
      modulation_result |-> [error |-> FALSE, total_score |-> 0],
      modulation_score |-> 0,
      development_score |-> 0,
      effectiveness_score |-> 0,
      vocabulary_native |-> 0,
      vocabulary_score |-> 0,
      overall_score |-> 0 ]

NoResponse == [status |-> 0, body |-> <<>>]

NoSave ==
    [ pc |-> "idle", user_id |-> "", speech_data |-> "", doc_ref |-> <<>>,
      cause |-> "none", response |-> [status |-> 0, document_id |-> <<>>] ]

NoV2 == [analysis_result |-> <<>>, audio_url |-> <<>>]

NoHist == [staged |-> FALSE, content_read |-> FALSE, unlinks |-> 0,
           unlink_failed |-> FALSE, wave |-> 0]

Init ==
    /\ server = "starting"
    /\ whisper_model = "None"
    /\ running = {}
    /\ in_model = {}
    /\ files = {}
    /\ pc = [i \in Inv |-> "idle"]
    /\ request = [i \in Inv |-> NoRequest]
    /\ temp_audio_path = [i \in Inv |-> <<>>]
    /\ loc = [i \in Inv |-> NoLocals]
    /\ exc = [i \in Inv |-> "none"]
    /\ response = [i \in Inv |-> NoResponse]
    /\ started = [i \in Inv |-> {}]
    /\ failed = [i \in Inv |-> "none"]
    /\ hist = [i \in Inv |-> NoHist]
    /\ save = NoSave
    /\ firestore_docs = {}
    /\ v2 = [i \in Inv |-> NoV2]

----------------------------------------------------------------------------
(* Pure steps of the handler *)

\* The modulation score read without the 'error' check.
ModulationScoreNoDefault(r) == r.total_score

\* Lines 167-171: the score taken from the modulation result.
ModulationScore(r) == IF r.error THEN 10000 ELSE r.total_score

\* Line 181.
DevelopmentScore(structure, time_utilization) == structure + time_utilization

\* The vocabulary score taken over on its native scale.
VocabularyScoreNoRescale(v) == v

\* Line 204: (vocabulary_score / 100) * 20.
VocabularyScore(v) == (v * 20) \div 100

\* Lines 209-215.
OverallScore(l) ==
    l.final_score + l.modulation_score + l.development_score
        + l.effectiveness_score + l.vocabulary_score

\* Lines 138-139: the duration is that of the decoded waveform; neither the
\* transcript nor the request enters.
MeasuredDuration(wave, transcription_result, expected_duration) == wave

\* Lines 221-254: the report.
Results(l, req) ==
    [ overall_score |-> Round1(l.overall_score),
      scores |->
        [ proficiency |-> Round1(l.final_score),
          voice_modulation |-> Round1(l.modulation_score),
          speech_development |-> Round1(l.development_score),
          speech_effectiveness |-> Round1(l.effectiveness_score),
          vocabulary |-> Round1(l.vocabulary_score) ],
      transcription |-> l.transcription_result,
      duration |->
        [ actual |-> l.actual_duration_str,
          expected |-> req.expected_duration,
          seconds |-> RoundSeconds(l.actual_duration) ],
      voice_modulation_details |->
        IF l.modulation_result.error THEN <<>> ELSE <<l.modulation_result>> ]

\* Lines 270-279: `except Exception` catches whatever the try body raised,
\* the HTTPException(400) of the validation included, and raises
\* HTTPException(500).
ExceptStatus(e) == 500

\* A failed transcription swallowed: the handler goes on to the next step.
OnRaiseSwallowTranscription(stage) ==
    IF stage = "transcription" THEN "duration" ELSE "except"

\* Where control goes when `stage` raises inside the try body: line 270.
OnRaise(stage) == "except"

\* Cleanup only when the try body ended without an exception.
NeedsCleanupOnSuccess(i) ==
    /\ exc[i] = "none"
    /\ temp_audio_path[i] # <<>>
    /\ temp_audio_path[i][1] \in files

\* Line 283: the finally block unlinks when the path is set and exists.
NeedsCleanup(i) ==
    /\ temp_audio_path[i] # <<>>
    /\ temp_audio_path[i][1] \in files

\* The model call awaited in a worker thread: the event loop is released.
LoopReleasedDuringModelCall(i) == {}

\* Line 132: transcribe_audio is called without await, so the event loop
\* thread stays with the caller for the whole call.
LoopDuringModelCall(i) == {i}

----------------------------------------------------------------------------
(* Actions *)

\* startup_event, lines 47-58.  A failed load re-raises and the server never
\* serves.
Startup ==
    /\ server = "starting"
    /\ \/ /\ whisper_model' = "base"
          /\ server' = "serving"
       \/ /\ server' = "failed"
          /\ UNCHANGED whisper_model
    /\ UNCHANGED << running, in_model, files, pc, request, temp_audio_path,
                    loc, exc, response, started, failed, hist >>
    /\ UNCHANGED << save, firestore_docs, v2 >>

\* `stage` raises inside the try body.
Raise(i, stage) ==
    /\ pc' = [pc EXCEPT ![i] = OnRaise(stage)]
    /\ exc' = [exc EXCEPT ![i] = "Exception"]
    /\ failed' = [failed EXCEPT ![i] = stage]

\* Lines 100-125: a request arrives and the handler runs to its first await.
Analyze(i) ==
    /\ server = "serving"
    /\ pc[i] = "idle"
    /\ running = {}
    /\ \E filename \in Filenames, expected_duration \in ExpectedDurations :
          /\ request' = [request EXCEPT ![i] =
                 [filename |-> filename, expected_duration |-> expected_duration]]
          /\ IF ValidUpload(filename)
             THEN \* NamedTemporaryFile(delete=False), then await audio.read()
                  /\ temp_audio_path' = [temp_audio_path EXCEPT ![i] = <<i>>]
                  /\ files' = files \cup {i}
                  /\ hist' = [hist EXCEPT ![i].staged = TRUE]
                  /\ pc' = [pc EXCEPT ![i] = "reading"]
                  /\ running' = {}
                  /\ UNCHANGED exc
             ELSE \* raise HTTPException(status_code=400, ...)
                  /\ exc' = [exc EXCEPT ![i] = "HTTPException400"]
                  /\ pc' = [pc EXCEPT ![i] = "except"]
                  /\ running' = {i}
                  /\ UNCHANGED << temp_audio_path, files, hist >>
    /\ UNCHANGED << server, whisper_model, in_model, loc, response, started,
                    failed >>
    /\ UNCHANGED << save, firestore_docs, v2 >>

\* Lines 125-126: the read completes and the handler resumes; from here to
\* its end it never awaits again.
ReadDone(i) ==
    /\ pc[i] = "reading"
    /\ running = {}
    /\ running' = {i}
    /\ \/ /\ hist' = [hist EXCEPT ![i].content_read = TRUE]
          /\ pc' = [pc EXCEPT ![i] = "transcribe"]
          /\ UNCHANGED << exc, failed >>
       \/ /\ Raise(i, "staging")
          /\ UNCHANGED hist
    /\ UNCHANGED << server, whisper_model, in_model, files, request,
                    temp_audio_path, loc, response, started >>
    /\ UNCHANGED << save, firestore_docs, v2 >>

\* Line 132: the call on the shared model begins.
TranscribeCall(i) ==
    /\ pc[i] = "transcribe"
    /\ running = {i}
    /\ in_model' = in_model \cup {i}
    /\ started' = [started EXCEPT ![i] = @ \cup {"transcription"}]
    /\ pc' = [pc EXCEPT ![i] = "in_model"]
    /\ running' = LoopDuringModelCall(i)
    /\ UNCHANGED << server, whisper_model, files, request, temp_audio_path,
                    loc, exc, response, failed, hist >>
    /\ UNCHANGED << save, firestore_docs, v2 >>

\* Lines 132-134: the call returns and process_transcription runs, or one of
\* them raises.
TranscribeReturn(i) ==
    /\ pc[i] = "in_model"
    /\ running = LoopDuringModelCall(i)
    /\ running' = {i}
    /\ in_model' = in_model \ {i}
    /\ \/ \E t \in Transcripts :
             /\ loc' = [loc EXCEPT ![i].transcription_result = t]
             /\ pc' = [pc EXCEPT ![i] = "duration"]
             /\ UNCHANGED << exc, failed >>
       \/ /\ Raise(i, "transcription")
          /\ UNCHANGED loc
    /\ UNCHANGED << server, whisper_model, files, request, temp_audio_path,
                    response, started, hist >>
    /\ UNCHANGED << save, firestore_docs, v2 >>

\* A stage of the try body begins: the handler is at `at` and has the loop.
Begin(i, at, stage) ==
    /\ pc[i] = at
    /\ running = {i}
    /\ started' = [started EXCEPT ![i] = @ \cup {stage}]
    /\ UNCHANGED << server, whisper_model, running, in_model, files, request,
                    temp_audio_path, response >>
    /\ UNCHANGED << save, firestore_docs, v2 >>

\* The handler going from the filler-word analysis straight to the
\* proficiency score, the pause analysis left out.
ReturnSkippingPause(i, next) ==
    /\ pc' = [pc EXCEPT ![i] = IF next = "pause" THEN "proficiency" ELSE next]
    /\ UNCHANGED << exc, failed >>

\* The stage returned; the handler moves on to `next`.
Return(i, next) ==
    /\ pc' = [pc EXCEPT ![i] = next]
    /\ UNCHANGED << exc, failed >>

\* Lines 136-141: librosa.load, get_duration, and the formatted duration.
DurationProbe(i) ==
    /\ Begin(i, "duration", "duration")
    /\ \/ \E wave \in WaveDurations :
             LET d == MeasuredDuration(wave, loc[i].transcription_result,
                                       request[i].expected_duration)
             IN  /\ loc' = [loc EXCEPT ![i].actual_duration = d,
                                       ![i].actual_duration_str = FormatDuration(d)]
                 /\ hist' = [hist EXCEPT ![i].wave = wave]
                 /\ Return(i, "filler")
       \/ /\ Raise(i, "duration")
          /\ UNCHANGED << loc, hist >>

\* Lines 143-146: analyze_filler_words.
FillerAnalysis(i) ==
    /\ Begin(i, "filler", "filler")
    /\ \/ Return(i, "pause")
       \/ Raise(i, "filler")
    /\ UNCHANGED << loc, hist >>

\* Lines 148-151: analyze_mid_sentence_pauses.
PauseAnalysis(i) ==
    /\ Begin(i, "pause", "pause")
    /\ \/ Return(i, "proficiency")
       \/ Raise(i, "pause")
    /\ UNCHANGED << loc, hist >>

\* Lines 153-161: calculate_proficiency_score.
Proficiency(i) ==
    /\ Begin(i, "proficiency", "proficiency")
    /\ \/ \E s \in ProficiencyScores :
             /\ loc' = [loc EXCEPT ![i].final_score = s]
             /\ Return(i, "modulation")
       \/ /\ Raise(i, "proficiency")
          /\ UNCHANGED loc
    /\ UNCHANGED hist

\* Lines 163-172: analyze_voice_modulation reports its own failure as a dict
\* with an 'error' key, which the handler replaces by the default score.
VoiceModulation(i) ==
    /\ Begin(i, "modulation", "modulation")
    /\ \E r \in ModulationResults :
          /\ loc' = [loc EXCEPT ![i].modulation_result = r,
                                ![i].modulation_score = ModulationScore(r)]
          /\ Return(i, "development")
    /\ UNCHANGED hist

\* Lines 174-182: evaluate_speech_development.
SpeechDevelopment(i) ==
    /\ Begin(i, "development", "development")
    /\ \/ \E st \in StructureScores, tu \in TimeUtilizationScores :
             /\ loc' = [loc EXCEPT ![i].development_score = DevelopmentScore(st, tu)]
             /\ Return(i, "effectiveness")
       \/ /\ Raise(i, "development")
          /\ UNCHANGED loc
    /\ UNCHANGED hist

\* Lines 184-193: evaluate_speech_effectiveness.
SpeechEffectiveness(i) ==
    /\ Begin(i, "effectiveness", "effectiveness")
    /\ \/ \E s \in EffectivenessScores :
             /\ loc' = [loc EXCEPT ![i].effectiveness_score = s]
             /\ Return(i, "vocabulary")
       \/ /\ Raise(i, "effectiveness")
          /\ UNCHANGED loc
    /\ UNCHANGED hist

\* Lines 195-205: vocabulary_evaluation.evaluate_speech and the rescale.
Vocabulary(i) ==
    /\ Begin(i, "vocabulary", "vocabulary")
    /\ \/ \E v \in VocabularyNative :
             /\ loc' = [loc EXCEPT ![i].vocabulary_native = v,
                                   ![i].vocabulary_score = VocabularyScore(v)]
             /\ Return(i, "compile")
       \/ /\ Raise(i, "vocabulary")
          /\ UNCHANGED loc
    /\ UNCHANGED hist

\* Lines 207-268: the overall score, the report and JSONResponse(content=..),
\* which raises on a value it cannot serialise.
Compile(i) ==
    /\ pc[i] = "compile"
    /\ running = {i}
    /\ started' = [started EXCEPT ![i] = @ \cup {"compile"}]
    /\ loc' = [loc EXCEPT ![i].overall_score = OverallScore(loc[i])]
    /\ \/ /\ response' = [response EXCEPT ![i] =
                 [status |-> 200, body |-> <<Results(loc'[i], request[i])>>]]
          /\ pc' = [pc EXCEPT ![i] = "finally"]
          /\ UNCHANGED << exc, failed >>
       \/ /\ Raise(i, "compile")
          /\ UNCHANGED response
    /\ UNCHANGED << server, whisper_model, running, in_model, files, request,
                    temp_audio_path, hist >>
    /\ UNCHANGED << save, firestore_docs, v2 >>

\* Lines 270-279.
Except(i) ==
    /\ pc[i] = "except"
    /\ running = {i}
    /\ response' = [response EXCEPT ![i] =
           [status |-> ExceptStatus(exc[i]), body |-> <<>>]]
    /\ pc' = [pc EXCEPT ![i] = "finally"]
    /\ UNCHANGED << server, whisper_model, running, in_model, files, request,
                    temp_audio_path, loc, exc, started, failed, hist >>
    /\ UNCHANGED << save, firestore_docs, v2 >>

\* Lines 281-288: os.unlink deletes the file, or raises and the failure is
\* printed and dropped.
Finally(i) ==
    /\ pc[i] = "finally"
    /\ running = {i}
    /\ pc' = [pc EXCEPT ![i] = "done"]
    /\ IF NeedsCleanup(i)
       THEN \/ /\ files' = files \ {temp_audio_path[i][1]}
               /\ hist' = [hist EXCEPT ![i].unlinks = @ + 1]
           \/ /\ hist' = [hist EXCEPT ![i].unlinks = @ + 1,
                                       ![i].unlink_failed = TRUE]
               /\ UNCHANGED files
       ELSE UNCHANGED << files, hist >>
    /\ UNCHANGED << server, whisper_model, running, in_model, request,
                    temp_audio_path, loc, exc, response, started, failed >>
    /\ UNCHANGED << save, firestore_docs, v2 >>

\* The response leaves the handler; the framework sends it and the event
\* loop is free again.  The slot takes the next request, whose temporary
\* file has a fresh name: a file that a failed unlink left on disk is no
\* longer tracked.
Respond(i) ==
    /\ pc[i] = "done"
    /\ running = {i}
    /\ running' = {}
    /\ pc' = [pc EXCEPT ![i] = "idle"]
    /\ request' = [request EXCEPT ![i] = NoRequest]
    /\ temp_audio_path' = [temp_audio_path EXCEPT ![i] = <<>>]
    /\ files' = files \ {i}
    /\ loc' = [loc EXCEPT ![i] = NoLocals]
    /\ exc' = [exc EXCEPT ![i] = "none"]
    /\ response' = [response EXCEPT ![i] = NoResponse]
    /\ started' = [started EXCEPT ![i] = {}]
    /\ failed' = [failed EXCEPT ![i] = "none"]
    /\ hist' = [hist EXCEPT ![i] = NoHist]
    /\ UNCHANGED << server, whisper_model, in_model >>
    /\ UNCHANGED << save, firestore_docs, v2 >>

Next ==
    \/ Startup
    \/ \E i \in Inv :
          \/ Analyze(i)
          \/ ReadDone(i)
          \/ TranscribeCall(i)
          \/ TranscribeReturn(i)
          \/ DurationProbe(i)
          \/ FillerAnalysis(i)
          \/ PauseAnalysis(i)
          \/ Proficiency(i)
          \/ VoiceModulation(i)
          \/ SpeechDevelopment(i)
          \/ SpeechEffectiveness(i)
          \/ Vocabulary(i)
          \/ Compile(i)
          \/ Except(i)
          \/ Finally(i)
          \/ Respond(i)

Spec == Init /\ [][Next]_vars

----------------------------------------------------------------------------
(* /save-speech, backend/app/main.py lines 290-327.  The handler has no     *)
(* await: it runs from its first line to its response in one piece.         *)

\* Number of document ids the Firestore client can hand out.
MaxDocId == 3

DocIds == 1..MaxDocId

\* user_id form field.
UserIds == {"u1", "u2", "u3"}

\* speech_data form field: a report, an empty object, a JSON list, text that
\* is not JSON.
SpeechData == {"{\"overall_score\": 66.4}", "{}", "[1]", "{oops"}

\* json.loads on these texts: whether it returns, and whether what it
\* returns is a mapping (what `**data` needs).
JsonLoads(text) ==
    CASE text = "{\"overall_score\": 66.4}" ->
             [ok |-> TRUE, mapping |-> TRUE, fields |-> {"overall_score"}]
      [] text = "{}" -> [ok |-> TRUE, mapping |-> TRUE, fields |-> {}]
      [] text = "[1]" -> [ok |-> TRUE, mapping |-> FALSE, fields |-> {}]
      [] OTHER -> [ok |-> FALSE, mapping |-> FALSE, fields |-> {}]

\* The names bound at module level: the imports of lines 1-23, app and
\* whisper_model.  firebase_config's `firestore` is not among them: only
\* `db` is imported from it.
ModuleNames ==
    { "os", "whisper", "librosa", "FastAPI", "File", "UploadFile", "Form",
      "HTTPException", "CORSMiddleware", "JSONResponse", "tempfile",
      "traceback", "load_dotenv", "filler_word_detection",
      "proficiency_evaluation", "transcript", "voice_modulation",
      "speech_development", "speech_effectiveness", "vocabulary_evaluation",
      "db", "app", "whisper_model" }

\* A global name lookup succeeds.
NameDefined(name) == name \in ModuleNames

\* Lines 323-327: any exception becomes a 500.
SaveRaise(cause) ==
    save' = [save EXCEPT !.pc = "except", !.cause = cause]

\* A /save-speech request arrives.
SaveSpeech ==
    /\ server = "serving"
    /\ save.pc = "idle"
    /\ running = {}
    /\ \E user_id \in UserIds, speech_data \in SpeechData :
          save' = [NoSave EXCEPT !.pc = "loads", !.user_id = user_id,
                                 !.speech_data = speech_data]
    /\ UNCHANGED << server, running, analyzeVars, firestore_docs, v2 >>

\* Line 307: data = json.loads(speech_data).
SaveLoads ==
    /\ save.pc = "loads"
    /\ IF JsonLoads(save.speech_data).ok
       THEN save' = [save EXCEPT !.pc = "document"]
       ELSE SaveRaise("json")
    /\ UNCHANGED << server, running, analyzeVars, firestore_docs, v2 >>

\* Line 310: doc_ref = db.collection('speeches').document(), a reference
\* with a fresh id made by the client.
SaveDocument ==
    /\ save.pc = "document"
    /\ \E id \in DocIds :
          /\ \A doc \in firestore_docs : doc.id # id
          /\ save' = [save EXCEPT !.pc = "set", !.doc_ref = <<id>>]
    /\ UNCHANGED << server, running, analyzeVars, firestore_docs, v2 >>

\* Lines 311-321: the dict of the document is built (user_id, then
\* firestore.SERVER_TIMESTAMP, then **data), doc_ref.set stores it or
\* raises, and the handler returns the document id.
SaveSet ==
    /\ save.pc = "set"
    /\ IF ~NameDefined("firestore")
       THEN SaveRaise("NameError") /\ UNCHANGED firestore_docs
       ELSE IF ~JsonLoads(save.speech_data).mapping
       THEN SaveRaise("TypeError") /\ UNCHANGED firestore_docs
       ELSE \/ /\ firestore_docs' = firestore_docs \cup
                     { [ id |-> save.doc_ref[1], user_id |-> save.user_id,
                         fields |-> JsonLoads(save.speech_data).fields ] }
               /\ save' = [save EXCEPT !.pc = "done",
                              !.response = [status |-> 200,
                                            document_id |-> save.doc_ref]]
            \/ /\ SaveRaise("collaborator")
               /\ UNCHANGED firestore_docs
    /\ UNCHANGED << server, running, analyzeVars, v2 >>

\* Lines 323-327.
SaveExcept ==
    /\ save.pc = "except"
    /\ save' = [save EXCEPT !.pc = "done",
                   !.response = [status |-> 500, document_id |-> <<>>]]
    /\ UNCHANGED << server, running, analyzeVars, firestore_docs, v2 >>

\* The response is sent.
SaveRespond ==
    /\ save.pc = "done"
    /\ save' = NoSave
    /\ UNCHANGED << server, running, analyzeVars, firestore_docs, v2 >>

NextSave ==
    \/ Startup
    \/ SaveSpeech
    \/ SaveLoads
    \/ SaveDocument
    \/ SaveSet
    \/ SaveExcept
    \/ SaveRespond

SpecSave == Init /\ [][NextSave]_vars

----------------------------------------------------------------------------
(* /api/v2/analyze, app/main.py lines 85-183: the second application.  Its  *)
(* analysis and its persistence are awaited services; the event loop is     *)
(* free while the handler waits for one.                                    *)

\* Path(filename).suffix: the text from the last dot of the final path
\* component, when that dot is neither its first nor its last character.
PathSuffix(p) ==
    LET name == SubSeq(p, RFind(p, "/") + 1, Len(p))
        k == RFind(name, ".")
    IN  IF 1 < k /\ k < Len(name) THEN SubSeq(name, k, Len(name)) ELSE <<>>

\* Line 121.
allowed_extensions_v2 ==
    { <<".", "w", "a", "v">>, <<".", "m", "p", "3">>, <<".", "m", "4", "a">>,
      <<".", "o", "g", "g">> }

\* Lines 117-125.
ValidUploadV2(filename) ==
    /\ filename # <<>>
    /\ Lower(PathSuffix(filename)) \in allowed_extensions_v2

\* What speech_service.analyze_speech returns: the report.
AnalysisResults == { [overall_score |-> 66400], [overall_score |-> 0] }

\* What firebase_service.upload_audio returns.
AudioUrls == { "gs://bucket/audio" }

v2Frame == << server, whisper_model, in_model, loc, started, save,
              firestore_docs >>

\* Lines 47-52: the startup event only logs.
StartupV2 ==
    /\ server = "starting"
    /\ server' = "serving"
    /\ UNCHANGED << whisper_model, running, in_model, files, pc, request,
                    temp_audio_path, loc, exc, response, started, failed,
                    hist, save, firestore_docs, v2 >>

\* An awaited call raised, or the validation did: control goes to the
\* except clause of line 172 and the handler has the event loop.
RaiseV2(i, stage, e) ==
    /\ pc' = [pc EXCEPT ![i] = "except"]
    /\ exc' = [exc EXCEPT ![i] = e]
    /\ failed' = [failed EXCEPT ![i] = stage]
    /\ running' = {i}

\* Lines 110-130: a request arrives and the handler runs to its first await.
AnalyzeV2(i) ==
    /\ server = "serving"
    /\ pc[i] = "idle"
    /\ running = {}
    /\ \E filename \in Filenames, expected_duration \in ExpectedDurations :
          /\ request' = [request EXCEPT ![i] =
                 [filename |-> filename, expected_duration |-> expected_duration]]
          /\ IF ValidUploadV2(filename)
             THEN /\ temp_audio_path' = [temp_audio_path EXCEPT ![i] = <<i>>]
                  /\ files' = files \cup {i}
                  /\ hist' = [hist EXCEPT ![i].staged = TRUE]
                  /\ pc' = [pc EXCEPT ![i] = "reading"]
                  /\ UNCHANGED << exc, failed, running >>
             ELSE /\ RaiseV2(i, "validation", "HTTPException400")
                  /\ UNCHANGED << temp_audio_path, files, hist >>
    /\ UNCHANGED << response, v2 >>
    /\ UNCHANGED v2Frame

\* Lines 130-145: the upload is read and written, and the handler awaits
\* speech_service.analyze_speech.
ReadDoneV2(i) ==
    /\ pc[i] = "reading"
    /\ running = {}
    /\ \/ /\ hist' = [hist EXCEPT ![i].content_read = TRUE]
          /\ pc' = [pc EXCEPT ![i] = "analyzing"]
          /\ UNCHANGED << exc, failed, running >>
       \/ /\ RaiseV2(i, "staging", "Exception")
          /\ UNCHANGED hist
    /\ UNCHANGED << files, request, temp_audio_path, response, v2 >>
    /\ UNCHANGED v2Frame

\* Lines 137-155: the analysis returns the report, and the handler awaits
\* firebase_service.upload_audio.
AnalysisDoneV2(i) ==
    /\ pc[i] = "analyzing"
    /\ running = {}
    /\ \/ \E r \in AnalysisResults :
             /\ v2' = [v2 EXCEPT ![i].analysis_result = <<r>>]
             /\ pc' = [pc EXCEPT ![i] = "uploading"]
             /\ UNCHANGED << exc, failed, running >>
       \/ /\ RaiseV2(i, "analysis", "Exception")
          /\ UNCHANGED v2
    /\ UNCHANGED << files, request, temp_audio_path, response, hist >>
    /\ UNCHANGED v2Frame

\* Lines 151-166: the upload returns the audio url, which goes into the
\* report, and the handler awaits firebase_service.save_speech_analysis.
UploadDoneV2(i) ==
    /\ pc[i] = "uploading"
    /\ running = {}
    /\ \/ \E url \in AudioUrls :
             /\ v2' = [v2 EXCEPT ![i].audio_url = <<url>>]
             /\ pc' = [pc EXCEPT ![i] = "saving"]
             /\ UNCHANGED << exc, failed, running >>
       \/ /\ RaiseV2(i, "upload_audio", "Exception")
          /\ UNCHANGED v2
    /\ UNCHANGED << files, request, temp_audio_path, response, hist >>
    /\ UNCHANGED v2Frame

\* Lines 160-170: the save returns and the handler returns the report with
\* status 200.
SaveDoneV2(i) ==
    /\ pc[i] = "saving"
    /\ running = {}
    /\ \/ /\ response' = [response EXCEPT ![i] =
                 [ status |-> 200,
                   body |-> << [ analysis |-> v2[i].analysis_result[1],
                                 audio_url |-> v2[i].audio_url[1] ] >> ]]
          /\ pc' = [pc EXCEPT ![i] = "finally"]
          /\ running' = {i}
          /\ UNCHANGED << exc, failed >>
       \/ /\ RaiseV2(i, "save_speech_analysis", "Exception")
          /\ UNCHANGED response
    /\ UNCHANGED << files, request, temp_audio_path, hist, v2 >>
    /\ UNCHANGED v2Frame

\* Lines 172-174: `except Exception` answers 500 whatever was raised.
ExceptV2(i) ==
    /\ pc[i] = "except"
    /\ running = {i}
    /\ response' = [response EXCEPT ![i] = [status |-> 500, body |-> <<>>]]
    /\ pc' = [pc EXCEPT ![i] = "finally"]
    /\ UNCHANGED << running, files, request, temp_audio_path, exc, failed,
                    hist, v2 >>
    /\ UNCHANGED v2Frame

\* Lines 176-183: os.remove deletes the file, or raises and is logged.
FinallyV2(i) ==
    /\ pc[i] = "finally"
    /\ running = {i}
    /\ pc' = [pc EXCEPT ![i] = "done"]
    /\ IF temp_audio_path[i] # <<>> /\ temp_audio_path[i][1] \in files
       THEN \/ /\ files' = files \ {temp_audio_path[i][1]}
               /\ hist' = [hist EXCEPT ![i].unlinks = @ + 1]
            \/ /\ hist' = [hist EXCEPT ![i].unlinks = @ + 1,
                                       ![i].unlink_failed = TRUE]
               /\ UNCHANGED files
       ELSE UNCHANGED << files, hist >>
    /\ UNCHANGED << running, request, temp_audio_path, exc, response, failed,
                    v2 >>
    /\ UNCHANGED v2Frame

\* The response is sent and the slot takes the next request.
RespondV2(i) ==
    /\ pc[i] = "done"
    /\ running = {i}
    /\ running' = {}
    /\ pc' = [pc EXCEPT ![i] = "idle"]
    /\ request' = [request EXCEPT ![i] = NoRequest]
    /\ temp_audio_path' = [temp_audio_path EXCEPT ![i] = <<>>]
    /\ files' = files \ {i}
    /\ exc' = [exc EXCEPT ![i] = "none"]
    /\ response' = [response EXCEPT ![i] = NoResponse]
    /\ failed' = [failed EXCEPT ![i] = "none"]
    /\ hist' = [hist EXCEPT ![i] = NoHist]
    /\ v2' = [v2 EXCEPT ![i] = NoV2]
    /\ UNCHANGED v2Frame

NextV2 ==
    \/ StartupV2
    \/ \E i \in Inv :
          \/ AnalyzeV2(i)
          \/ ReadDoneV2(i)
          \/ AnalysisDoneV2(i)
          \/ UploadDoneV2(i)
          \/ SaveDoneV2(i)
          \/ ExceptV2(i)
          \/ FinallyV2(i)
          \/ RespondV2(i)

SpecV2 == Init /\ [][NextV2]_vars

----------------------------------------------------------------------------
(* Properties *)

Done(i) == pc[i] = "done"

Report(i) == response[i].body[1]

ScorerStages ==
    {"filler", "pause", "proficiency", "development", "effectiveness",
     "vocabulary"}

\* The upload's name ends in one of the allowed extensions, after a
\* non-empty stem, in any letter case.
HasAllowedExtension(filename) ==
    \E ext \in allowed_extensions :
        /\ Len(filename) > Len(ext)
        /\ Lower(SubSeq(filename, Len(filename) - Len(ext) + 1, Len(filename))) = ext

\* C1: a request with no filename or an unsupported extension is answered
\* with status 400, and status 500 is only given to requests that passed
\* the validation.
C1_InvalidUploadIs400 ==
    \A i \in Inv :
        Done(i) =>
            /\ (~HasAllowedExtension(request[i].filename)
                    => response[i].status = 400)
            /\ (response[i].status = 500
                    => HasAllowedExtension(request[i].filename))

\* C2 as claimed: once an invocation that staged a temporary file has ended,
\* the file no longer exists and its release was attempted exactly once.
C2_TempFileGone ==
    \A i \in Inv :
        Done(i) /\ hist[i].staged =>
            /\ temp_audio_path[i][1] \notin files
            /\ hist[i].unlinks = 1

\* C2 amended: once an invocation that staged a temporary file has ended, on
\* whatever exit path, the deletion was attempted exactly once, and the file
\* no longer exists unless that one os.unlink call itself raised.
C2_ReleaseAttemptedOnce ==
    \A i \in Inv :
        Done(i) /\ hist[i].staged =>
            /\ hist[i].unlinks = 1
            /\ (temp_audio_path[i][1] \in files => hist[i].unlink_failed)

C2_Witness ==
    \E i \in Inv :
        /\ Done(i) /\ hist[i].staged
        /\ failed[i] = "development"
        /\ hist[i].unlinks = 1
        /\ temp_audio_path[i][1] \notin files

C4_ScorerFailureContained ==
    \A i \in Inv :
        Done(i) /\ failed[i] \in ScorerStages =>
            /\ response[i].status = 200
            /\ Len(response[i].body) = 1

\* C5: when transcription fails, no later stage is ever started, no report
\* is produced, and the invocation ends with an error response.
C5_TranscriptionFatal ==
    \A i \in Inv :
        failed[i] = "transcription" =>
            /\ started[i] = {"transcription"}
            /\ pc[i] \in {"except", "finally", "done"}
            /\ response[i].body = <<>>
            /\ (Done(i) => response[i].status >= 400)

C5_Witness ==
    \E i \in Inv :
        /\ Done(i)
        /\ failed[i] = "transcription"
        /\ response[i].status = 500

InRange(l) ==
    /\ l.final_score \in 0..20000
    /\ l.modulation_score \in 0..20000
    /\ l.development_score \in 0..20000
    /\ l.effectiveness_score \in 0..20000
    /\ l.vocabulary_native \in 0..100000

\* C6: with the four scores in [0,20] and the vocabulary value in [0,100],
\* overall_score is the four scores plus vocabulary/100*20 (100 gives 20,
\* 0 gives 0), lies in [0,100], and is reported rounded to one decimal.
C6_OverallIsSum ==
    \A i \in Inv :
        Done(i) /\ response[i].status = 200 /\ InRange(loc[i]) =>
            LET l == loc[i]
                four == l.final_score + l.modulation_score
                          + l.development_score + l.effectiveness_score
            IN  /\ 100 * (l.overall_score - four) = 20 * l.vocabulary_native
                /\ (l.vocabulary_native = 100000 => l.overall_score = four + 20000)
                /\ (l.vocabulary_native = 0 => l.overall_score = four)
                /\ l.overall_score \in 0..100000
                /\ Report(i).overall_score % 100 = 0
                /\ 2 * (Report(i).overall_score - l.overall_score) \in -100..100

C6_Witness ==
    \E i \in Inv :
        /\ Done(i) /\ response[i].status = 200 /\ InRange(loc[i])
        /\ loc[i].vocabulary_native = 43210
        /\ loc[i].overall_score = 17260 + 20000 + 20000 + 20000 + 8642
        /\ Report(i).overall_score = 85900

\* C7: every reported dimension score lies in [0,20] and overall_score in
\* [0,100], whatever the stages returned.
C7_ScoresClamped ==
    \A i \in Inv :
        Done(i) /\ response[i].status = 200 =>
            /\ Report(i).scores.proficiency \in 0..20000
            /\ Report(i).scores.voice_modulation \in 0..20000
            /\ Report(i).scores.speech_development \in 0..20000
            /\ Report(i).scores.speech_effectiveness \in 0..20000
            /\ Report(i).scores.vocabulary \in 0..20000
            /\ Report(i).overall_score \in 0..100000

DigitVal(c) == CHOOSE d \in 0..9 : DigitChar(d) = c

IsDigit(c) == \E d \in 0..9 : DigitChar(d) = c

RECURSIVE ParseNat(_)
ParseNat(s) == IF s = <<>> THEN 0
               ELSE 10 * ParseNat(SubSeq(s, 1, Len(s) - 1)) + DigitVal(s[Len(s)])

\* C8: the reported duration is "M:SS" with M whole minutes and SS whole
\* seconds in 00..59 of the duration of the decoded waveform, truncated
\* (125.4 s is "2:05", 59.9 s is "0:59", 0 s is "0:00"); the reported
\* seconds are that waveform's too.
C8_DurationFormat ==
    \A i \in Inv :
        Done(i) /\ response[i].status = 200 =>
            LET d == hist[i].wave
                s == Report(i).duration.actual
                n == Len(s)
            IN  /\ n >= 4
                /\ s[n - 2] = ":"
                /\ \A k \in (1..n) \ {n - 2} : IsDigit(s[k])
                /\ n > 4 => s[1] # "0"
                /\ LET M == ParseNat(SubSeq(s, 1, n - 3))
                       SS == ParseNat(SubSeq(s, n - 1, n))
                   IN  /\ SS \in 0..59
                       /\ (60 * M + SS) * 100 <= d
                       /\ d < (60 * M + SS + 1) * 100
                /\ (d = 12540 => s = <<"2", ":", "0", "5">>)
                /\ (d = 5990 => s = <<"0", ":", "5", "9">>)
                /\ (d = 0 => s = <<"0", ":", "0", "0">>)
                /\ 2 * (Report(i).duration.seconds - d) \in -10..10

C8_Witness ==
    \E i \in Inv :
        /\ Done(i) /\ response[i].status = 200
        /\ hist[i].wave = 5990
        /\ Report(i).duration.actual = <<"0", ":", "5", "9">>
        /\ Report(i).transcription.speech_end # hist[i].wave

\* C9: a request with a missing filename or an extension outside the
\* allow-list never gets a temporary file, its upload is never read, and
\* neither transcription nor any scorer stage is started for it.
C9_RejectedBeforeStaging ==
    \A i \in Inv :
        pc[i] # "idle" /\ ~HasAllowedExtension(request[i].filename) =>
            /\ ~hist[i].staged
            /\ temp_audio_path[i] = <<>>
            /\ i \notin files
            /\ ~hist[i].content_read
            /\ started[i] = {}
            /\ i \notin in_model

C9_Witness ==
    \E i \in Inv :
        /\ Done(i)
        /\ request[i].filename = <<"a", ".", "t", "x", "t">>
        /\ ~hist[i].staged
        /\ response[i].status >= 400

\* C10: at most one invocation at a time is inside a call on the shared
\* model, and the model is loaded whenever it is called.
C10_ModelCallsSerialized ==
    /\ Cardinality(in_model) <= 1
    /\ (in_model # {} => whisper_model = "base")

C10_Witness ==
    \E i, j \in Inv :
        /\ i # j
        /\ i \in in_model
        /\ pc[j] = "reading"

\* The stage has run to its end without raising.
Completed(i, stage) ==
    /\ stage \in started[i]
    /\ failed[i] # stage
    /\ (stage = "transcription" => pc[i] # "in_model")

TranscriptStages ==
    {"filler", "pause", "proficiency", "development", "effectiveness",
     "vocabulary"}

\* C13: within one invocation the upload is staged and read before
\* transcription starts; transcription has completed before any stage that
\* reads the transcript starts; filler-word analysis has completed before
\* pause analysis starts; both, and the duration probe, before proficiency;
\* the duration probe before development and effectiveness; and the
\* aggregation starts only once all five dimension scores exist.
C13_StagesInDependencyOrder ==
    \A i \in Inv :
        /\ ("transcription" \in started[i]
                => hist[i].staged /\ hist[i].content_read)
        /\ (started[i] \cap TranscriptStages # {}
                => Completed(i, "transcription"))
        /\ ("pause" \in started[i] => Completed(i, "filler"))
        /\ ("proficiency" \in started[i]
                => /\ Completed(i, "filler")
                   /\ Completed(i, "pause")
                   /\ Completed(i, "duration"))
        /\ ({"development", "effectiveness"} \cap started[i] # {}
                => Completed(i, "duration"))
        /\ ("compile" \in started[i]
                => \A st \in {"proficiency", "modulation", "development",
                              "effectiveness", "vocabulary"} :
                       Completed(i, st))

C13_Witness ==
    \E i, j \in Inv :
        /\ i # j
        /\ pc[i] = "finally"
        /\ started[i] = Stages
        /\ response[i].status = 200
        /\ pc[j] = "reading"

\* C12: /save-speech, given a user id and a report that is valid JSON,
\* stores the report under that user id and returns success with the
\* document id the collaborator assigned; it answers 500 only when the
\* parsing or the collaborator failed.
C12_SaveStoresAndReturnsId ==
    save.pc = "done" =>
        /\ (save.response.status = 500
                => save.cause \in {"json", "collaborator"})
        /\ (JsonLoads(save.speech_data).mapping /\ save.cause # "collaborator"
                => /\ save.response.status = 200
                   /\ save.response.document_id = save.doc_ref
                   /\ \E doc \in firestore_docs :
                          /\ doc.id = save.doc_ref[1]
                          /\ doc.user_id = save.user_id)

PersistenceCalls == {"upload_audio", "save_speech_analysis"}

\* C11: when the audio upload or the report save fails after the analysis
\* has completed, the caller still receives the computed report.
C11_ReportSurvivesPersistenceFailure ==
    \A i \in Inv :
        pc[i] = "done" /\ failed[i] \in PersistenceCalls =>
            /\ response[i].status = 200
            /\ Len(response[i].body) = 1
            /\ response[i].body[1].analysis = v2[i].analysis_result[1]

====
